---------------------------- MODULE Spec2Model ----------------------------
(***************************************************************************)
(* The "Compare Tags" request of streamlit_app.py: the button handler, the *)
(* commit range resolver get_commits_between_tags (primary comparison and  *)
(* fallback listing), the thread pool of generate_commit_summary with one  *)
(* fetch_commit_details task per commit merged by the submitting thread,   *)
(* the formatted change summary and the completion call.                   *)
(***************************************************************************)
EXTENDS Integers, Sequences, FiniteSets, TLC

\* ------------------------------------------------------------------ bounds

\* The largest number of commits an upstream listing returns.
MaxCommits == 3
\* The largest commit limit the user enters (0 = all).
MaxLimit == 3
\* The number of worker threads of the pool.
MaxWorkers == 2

\* ------------------------------------------------------------ upstream data

HTTP_OK == 200

\* the non-success statuses upstream answers with
FailureStatusCodes == {404, 500}

\* response.text of a response
ResponseText(status_code) ==
    CASE status_code = 404 -> "Not Found"
      [] status_code = 500 -> "Server Error"
      [] OTHER -> "OK"

Tags == {"v1.0", "v2.0"}

ShaOf(i) == "c" \o ToString(i)

MessageOf(i) == IF i % 2 = 1 THEN "fix bug" ELSE "add feature"

\* A commit as the listing endpoints return it: commit["sha"],
\* commit["commit"]["message"].
Commit(i) == [sha |-> ShaOf(i), message |-> MessageOf(i)]

\* The commit list of a comparison: oldest first.
CompareList(n) == [i \in 1..n |-> Commit(i)]

\* The commit list of a listing from a ref: most recent first.
ListingFrom(n) == [i \in 1..n |-> Commit(n + 1 - i)]

CompareResponses ==
    {[status_code |-> HTTP_OK, text |-> ResponseText(HTTP_OK), commits |-> CompareList(n)] :
        n \in 0..MaxCommits}
    \cup {[status_code |-> sc, text |-> ResponseText(sc), commits |-> <<>>] :
            sc \in FailureStatusCodes}

FallbackResponses ==
    {[status_code |-> HTTP_OK, text |-> ResponseText(HTTP_OK), commits |-> ListingFrom(n)] :
        n \in 0..MaxCommits}
    \cup {[status_code |-> sc, text |-> ResponseText(sc), commits |-> <<>>] :
            sc \in FailureStatusCodes}

File(filename, status) == [filename |-> filename, status |-> status]

\* The "files" of a commit's details: each file of the commit once.
FileLists ==
    { <<File("a.py", "modified")>>,
      <<File("a.py", "modified"), File("b.py", "added")>>,
      <<File("a.py", "added")>> }

\* The responses of GET /repos/{repo}/commits/{sha} for a commit.
DetailResponses(commit) ==
    {[status_code |-> HTTP_OK, message |-> commit.message, files |-> fl] : fl \in FileLists}
    \cup {[status_code |-> sc, message |-> "", files |-> <<>>] : sc \in FailureStatusCodes}

NoResponse == [status_code |-> 0, message |-> "", files |-> <<>>]

\* ------------------------------------------------------------------- state

VARIABLES
    pc,                 \* where the request is
    tag1, tag2,         \* the two selected tags
    commit_limit,       \* the entered commit limit
    compare_response,   \* the response of the comparison call
    fallback_response,  \* the response of the fallback listing call
    resolved_by,        \* the return statement get_commits_between_tags took
    commits,            \* the list get_commits_between_tags returned
    calls,              \* the upstream requests issued, in order
    ui,                 \* the st.warning / st.error / st.info / st.write output
    futures,            \* the pool's futures, in submission order
    responses,          \* the detail response each worker received
    completed,          \* the futures completed and not yet yielded, in completion order
    commit_messages,    \* generate_commit_summary's list
    files_changed,      \* generate_commit_summary's set
    change_summary,     \* the formatted summary
    summary             \* the completion's text

vars == <<pc, tag1, tag2, commit_limit, compare_response, fallback_response,
          resolved_by, commits, calls, ui, futures, responses, completed,
          commit_messages, files_changed, change_summary, summary>>

NoSummary == [set |-> FALSE, commit_count |-> 0, files_count |-> 0,
              files |-> {}, messages |-> <<>>]

Init ==
    /\ pc = "idle"
    /\ tag1 = ""
    /\ tag2 = ""
    /\ commit_limit = 0
    /\ compare_response = [status_code |-> 0, text |-> "", commits |-> <<>>]
    /\ fallback_response = [status_code |-> 0, text |-> "", commits |-> <<>>]
    /\ resolved_by = "unset"
    /\ commits = <<>>
    /\ calls = <<>>
    /\ ui = <<>>
    /\ futures = <<>>
    /\ responses = <<>>
    /\ completed = <<>>
    /\ commit_messages = <<>>
    /\ files_changed = {}
    /\ change_summary = NoSummary
    /\ summary = ""

\* ----------------------------------------------------------------- helpers

Min(a, b) == IF a < b THEN a ELSE b

Range(s) == {s[i] : i \in 1..Len(s)}

Call(endpoint, ref) == [endpoint |-> endpoint, ref |-> ref]

Message(kind, text) == [kind |-> kind, text |-> text]

\* Truncate slicing whatever the limit: a limit of 0 keeps nothing.
TruncateAlwaysSlices(cs, limit) == SubSeq(cs, 1, Min(limit, Len(cs)))

\* commits[:commit_limit] if commit_limit else commits
Truncate(cs, limit) ==
    IF limit # 0 THEN SubSeq(cs, 1, Min(limit, Len(cs))) ELSE cs

\* PrimaryHit looking at the status alone: an empty comparison is returned as it is.
PrimaryHitStatusOnly(resp) == resp.status_code = HTTP_OK

\* if compare_response.status_code == 200 and its commit list is non-empty
PrimaryHit(resp) == resp.status_code = HTTP_OK /\ Len(resp.commits) > 0

\* SameTags never refusing.
SameTagsIgnored(t1, t2) == FALSE

\* if tag1 == tag2
SameTags(t1, t2) == t1 = t2

\* FallbackFailure showing nothing.
FallbackFailureSilent(resp) == <<>>

\* what the failure of the fallback listing shows the user
FallbackFailure(resp) ==
    <<Message("error", "Failed to fetch commits manually: " \o resp.text)>>

\* Label leaving the status out.
LabelFilenameOnly(file) == file.filename

\* f"{file['filename']} ({file['status']})"
Label(file) == file.filename \o " (" \o file.status \o ")"

\* fetch_commit_details reading the message of the response it got on both branches.
fetch_commit_details_from_response(commit, resp) ==
    [message |-> resp.message,
     changed_files |-> [k \in 1..Len(resp.files) |->
                           resp.files[k].filename \o " (" \o resp.files[k].status \o ")"]]

\* fetch_commit_details' return value for a commit and the response it got
fetch_commit_details(commit, resp) ==
    IF resp.status_code = HTTP_OK
    THEN [message |-> resp.message,
          changed_files |-> [k \in 1..Len(resp.files) |-> Label(resp.files[k])]]
    ELSE [message |-> commit.message, changed_files |-> <<>>]

Running == {i \in 1..Len(futures) : futures[i].state = "running"}

\* PoolDrained satisfied by the first yielded future.
PoolDrainedByFirst == \E i \in 1..Len(futures) : futures[i].state = "yielded"

\* the with-block is left, and the summary formatted, once every future was yielded
PoolDrained == \A i \in 1..Len(futures) : futures[i].state = "yielded"

\* ----------------------------------------------------------------- actions

\* if st.button("Compare Tags"): the tag guard and the st.info line
ClickCompare ==
    /\ pc = "idle"
    /\ \E t1 \in Tags, t2 \in Tags, limit \in 0..MaxLimit :
        /\ tag1' = t1
        /\ tag2' = t2
        /\ commit_limit' = limit
        /\ IF SameTags(t1, t2)
           THEN /\ ui' = Append(ui, Message("warning",
                            "Please select two different tags for comparison."))
                /\ pc' = "done"
           ELSE /\ ui' = Append(ui, Message("info",
                            "Comparing " \o t1 \o " to " \o t2))
                /\ pc' = "compare"
    /\ UNCHANGED <<compare_response, fallback_response, resolved_by, commits, calls,
                   futures, responses, completed, commit_messages, files_changed,
                   change_summary, summary>>

\* get_commits_between_tags: the comparison call and its branch
CompareCall ==
    /\ pc = "compare"
    /\ \E resp \in CompareResponses :
        /\ compare_response' = resp
        /\ calls' = Append(calls, Call("compare", tag1 \o "..." \o tag2))
        /\ IF PrimaryHit(resp)
           THEN /\ commits' = Truncate(resp.commits, commit_limit)
                /\ resolved_by' = "primary"
                /\ pc' = "caller"
           ELSE /\ pc' = "fallback"
                /\ UNCHANGED <<commits, resolved_by>>
    /\ UNCHANGED <<tag1, tag2, commit_limit, fallback_response, ui, futures, responses,
                   completed, commit_messages, files_changed, change_summary, summary>>

\* get_commits_between_tags: the fallback listing from tag1 and its branch
FallbackCall ==
    /\ pc = "fallback"
    /\ \E resp \in FallbackResponses :
        /\ fallback_response' = resp
        /\ calls' = Append(calls, Call("commits", tag1))
        /\ IF resp.status_code = HTTP_OK
           THEN /\ commits' = Truncate(resp.commits, commit_limit)
                /\ resolved_by' = "fallback"
                /\ UNCHANGED ui
           ELSE /\ ui' = ui \o FallbackFailure(resp)
                /\ resolved_by' = "None"
                /\ UNCHANGED commits
    /\ pc' = "caller"
    /\ UNCHANGED <<tag1, tag2, commit_limit, compare_response, futures, responses,
                   completed, commit_messages, files_changed, change_summary, summary>>

\* the handler's "if commits:" after get_commits_between_tags returned
CallerBranch ==
    /\ pc = "caller"
    /\ IF resolved_by # "None" /\ Len(commits) > 0
       THEN /\ pc' = "summary"
            /\ UNCHANGED ui
       ELSE /\ ui' = Append(ui, Message("warning",
                        "No commits found, even after fallback attempt."))
            /\ pc' = "done"
    /\ UNCHANGED <<tag1, tag2, commit_limit, compare_response, fallback_response,
                   resolved_by, commits, calls, futures, responses, completed,
                   commit_messages, files_changed, change_summary, summary>>

\* generate_commit_summary up to the submission of one task per commit
Submit ==
    /\ pc = "summary"
    /\ IF Len(commits) = 0
       THEN /\ summary' = "No commit data available."
            /\ pc' = "display"
            /\ UNCHANGED <<futures, responses>>
       ELSE /\ futures' = [i \in 1..Len(commits) |->
                              [state |-> "pending",
                               result |-> [message |-> "", changed_files |-> <<>>]]]
            /\ responses' = [i \in 1..Len(commits) |-> NoResponse]
            /\ pc' = "pool"
            /\ UNCHANGED summary
    /\ commit_messages' = <<>>
    /\ files_changed' = {}
    /\ UNCHANGED <<tag1, tag2, commit_limit, compare_response, fallback_response,
                   resolved_by, commits, calls, ui, completed, change_summary>>

\* a free worker takes the oldest queued task and sends its request
WorkerStart(i) ==
    /\ pc = "pool"
    /\ futures[i].state = "pending"
    /\ \A j \in 1..(i - 1) : futures[j].state # "pending"
    /\ Cardinality(Running) < MaxWorkers
    /\ futures' = [futures EXCEPT ![i].state = "running"]
    /\ calls' = Append(calls, Call("commit", commits[i].sha))
    /\ UNCHANGED <<pc, tag1, tag2, commit_limit, compare_response, fallback_response,
                   resolved_by, commits, ui, responses, completed, commit_messages,
                   files_changed, change_summary, summary>>

\* WorkerFinish with the worker adding its labels to the shared set itself.
WorkerFinishWritesShared(i) ==
    /\ pc = "pool"
    /\ futures[i].state = "running"
    /\ \E resp \in DetailResponses(commits[i]) :
        /\ responses' = [responses EXCEPT ![i] = resp]
        /\ futures' = [futures EXCEPT ![i] =
                          [state |-> "done",
                           result |-> fetch_commit_details(commits[i], resp)]]
        /\ files_changed' = files_changed
                \cup Range(fetch_commit_details(commits[i], resp).changed_files)
    /\ completed' = Append(completed, i)
    /\ UNCHANGED <<pc, tag1, tag2, commit_limit, compare_response, fallback_response,
                   resolved_by, commits, calls, ui, commit_messages,
                   change_summary, summary>>

\* the worker's request returns and fetch_commit_details returns its own result
WorkerFinish(i) ==
    /\ pc = "pool"
    /\ futures[i].state = "running"
    /\ \E resp \in DetailResponses(commits[i]) :
        /\ responses' = [responses EXCEPT ![i] = resp]
        /\ futures' = [futures EXCEPT ![i] =
                          [state |-> "done",
                           result |-> fetch_commit_details(commits[i], resp)]]
    /\ completed' = Append(completed, i)
    /\ UNCHANGED <<pc, tag1, tag2, commit_limit, compare_response, fallback_response,
                   resolved_by, commits, calls, ui, commit_messages, files_changed,
                   change_summary, summary>>

\* one turn of "for future in as_completed(futures)" in the submitting thread
Merge ==
    /\ pc = "pool"
    /\ Len(completed) > 0
    /\ LET i == Head(completed)
           r == futures[i].result
       IN /\ commit_messages' = Append(commit_messages, r.message)
          /\ files_changed' = files_changed \cup Range(r.changed_files)
          /\ futures' = [futures EXCEPT ![i].state = "yielded"]
    /\ completed' = Tail(completed)
    /\ UNCHANGED <<pc, tag1, tag2, commit_limit, compare_response, fallback_response,
                   resolved_by, commits, calls, ui, responses, change_summary, summary>>

\* the change_summary f-string
Format ==
    /\ pc = "pool"
    /\ PoolDrained
    /\ change_summary' = [set |-> TRUE,
                          commit_count |-> Len(commits),
                          files_count |-> Cardinality(files_changed),
                          files |-> files_changed,
                          messages |-> commit_messages]
    /\ pc' = "narrate"
    /\ UNCHANGED <<tag1, tag2, commit_limit, compare_response, fallback_response,
                   resolved_by, commits, calls, ui, futures, responses, completed,
                   commit_messages, files_changed, summary>>

\* generate_ai_summary: the completion call, which returns text or raises
Narrate ==
    /\ pc = "narrate"
    /\ calls' = Append(calls, Call("chat.completions", "gpt-4o-mini"))
    /\ \E ok \in BOOLEAN :
        IF ok
        THEN /\ summary' = "narrative"
             /\ pc' = "display"
             /\ UNCHANGED ui
        ELSE /\ ui' = Append(ui, Message("exception", "completion failed"))
             /\ pc' = "done"
             /\ UNCHANGED summary
    /\ UNCHANGED <<tag1, tag2, commit_limit, compare_response, fallback_response,
                   resolved_by, commits, futures, responses, completed,
                   commit_messages, files_changed, change_summary>>

\* st.subheader and st.write(summary)
Display ==
    /\ pc = "display"
    /\ ui' = Append(ui, Message("write", summary))
    /\ pc' = "done"
    /\ UNCHANGED <<tag1, tag2, commit_limit, compare_response, fallback_response,
                   resolved_by, commits, calls, futures, responses, completed,
                   commit_messages, files_changed, change_summary, summary>>

Next ==
    \/ ClickCompare
    \/ CompareCall
    \/ FallbackCall
    \/ CallerBranch
    \/ Submit
    \/ \E i \in 1..Len(futures) : WorkerStart(i)
    \/ \E i \in 1..Len(futures) : WorkerFinish(i)
    \/ Merge
    \/ Format
    \/ Narrate
    \/ Display

Spec == Init /\ [][Next]_vars

\* ------------------------------------------------------------ properties

Sum(f, S) ==
    LET RECURSIVE Acc(_)
        Acc(T) == IF T = {} THEN 0
                  ELSE LET x == CHOOSE y \in T : TRUE IN f[x] + Acc(T \ {x})
    IN Acc(S)

Issued(endpoint) == {k \in 1..Len(calls) : calls[k].endpoint = endpoint}

DetailCalls(sha) ==
    {k \in 1..Len(calls) : calls[k].endpoint = "commit" /\ calls[k].ref = sha}

Yielded == {i \in 1..Len(futures) : futures[i].state = "yielded"}

Failed == {i \in 1..Len(futures) :
              futures[i].state \in {"done", "yielded"} /\ responses[i].status_code # HTTP_OK}

Succeeded == {i \in 1..Len(futures) :
              futures[i].state \in {"done", "yielded"} /\ responses[i].status_code = HTTP_OK}

Occurrences(s, x) == Cardinality({k \in 1..Len(s) : s[k] = x})

\* the (filename, status) pairs the details of commit i list
PairsOf(i) == Range(responses[i].files)

\* a (filename, status) pair listed by two of the yielded commits
PairRepeats == \E i \in Yielded, j \in Yielded : i # j /\ PairsOf(i) \cap PairsOf(j) # {}

\* a file two yielded commits list with different statuses
StatusDiffers ==
    \E i \in Yielded, j \in Yielded : \E f \in PairsOf(i), g \in PairsOf(j) :
        f.filename = g.filename /\ f.status # g.status

\* C1: the commit messages of the formatted summary are in the order of the
\* commits of the range, whatever order the detail fetches completed in.
C1_MessagesInRangeOrder ==
    change_summary.set =>
        /\ Len(change_summary.messages) = Len(commits)
        /\ \A i \in 1..Len(commits) : change_summary.messages[i] = commits[i].message

\* C2: a comparison that succeeds with a non-empty list of total_commits commits
\* returns its leading min(limit, total_commits) commits when limit > 0 and all
\* of them when limit = 0.
C2_PrimaryReturnsPrefix ==
    resolved_by = "primary" =>
        LET total == Len(compare_response.commits)
        IN /\ tag1 # tag2
           /\ total > 0
           /\ commit_limit > 0 => Len(commits) = Min(commit_limit, total)
           /\ commit_limit = 0 => Len(commits) = total
           /\ \A i \in 1..Len(commits) : commits[i] = compare_response.commits[i]

C2_Witness ==
    /\ resolved_by = "primary"
    /\ commit_limit > 0
    /\ commit_limit < Len(compare_response.commits)
    /\ commits = SubSeq(compare_response.commits, 1, commit_limit)

\* C3: a comparison triggered with tag_from = tag_to is refused with a warning,
\* and no comparison, listing, detail or completion call is issued for it.
C3_EqualTagsRefused ==
    (pc # "idle" /\ tag1 = tag2) =>
        /\ pc = "done"
        /\ calls = <<>>
        /\ resolved_by = "unset"
        /\ futures = <<>>
        /\ ~change_summary.set
        /\ Len(ui) = 1
        /\ ui[1].kind = "warning"

C3_Witness == pc = "done" /\ tag1 = tag2 /\ tag1 \in Tags /\ Len(ui) = 1

\* C4: the deduplicated changed-file set has at most as many entries as the
\* commits' file lists have in total, as many exactly when no (filename, status)
\* pair is listed by two commits: it has one entry per distinct pair.
C4_DedupSize ==
    pc \in {"pool", "narrate", "display", "done"} =>
        LET total == Sum([i \in 1..Len(futures) |-> Len(responses[i].files)], Yielded)
            pairs == UNION {PairsOf(i) : i \in Yielded}
        IN /\ Cardinality(files_changed) <= total
           /\ (Cardinality(files_changed) = total) <=> ~PairRepeats
           /\ Cardinality(files_changed) = Cardinality(pairs)

C4_Witness ==
    /\ change_summary.set
    /\ PairRepeats
    /\ StatusDiffers
    /\ change_summary.files_count = 3

\* C5: the fallback listing is issued if and only if the comparison returned a
\* non-success status or no commits, and only after the comparison call; a
\* non-empty comparison is never followed by the listing.
C5_FallbackIffPrimaryMiss ==
    LET miss == \/ compare_response.status_code # HTTP_OK
                \/ Len(compare_response.commits) = 0
    IN /\ \A k \in Issued("commits") : k = 2 /\ calls[1].endpoint = "compare"
       /\ Issued("commits") # {} => miss
       /\ resolved_by # "unset" => (miss <=> Issued("commits") # {})
       /\ resolved_by = "primary" => Issued("commits") = {}
       /\ resolved_by \in {"fallback", "None"} => Cardinality(Issued("commits")) = 1

C5_Witness ==
    /\ resolved_by = "fallback"
    /\ compare_response.status_code = HTTP_OK
    /\ Len(compare_response.commits) = 0
    /\ Issued("commits") = {2}

\* C6: when the comparison and the fallback listing both fail, the resolver
\* returns None, one error carrying the failed listing's response text is shown,
\* and no detail fetch and no completion call follows.
C6_BothFailAbsent ==
    (/\ resolved_by # "unset"
     /\ compare_response.status_code # HTTP_OK
     /\ fallback_response.status_code \in FailureStatusCodes) =>
        LET errors == {k \in 1..Len(ui) : ui[k].kind = "error"}
        IN /\ resolved_by = "None"
           /\ commits = <<>>
           /\ Cardinality(errors) = 1
           /\ \A k \in errors :
                ui[k].text = "Failed to fetch commits manually: "
                                \o ResponseText(fallback_response.status_code)
           /\ Issued("commit") = {}
           /\ Issued("chat.completions") = {}
           /\ futures = <<>>
           /\ pc \in {"caller", "done"}

C6_Witness ==
    /\ pc = "done"
    /\ resolved_by = "None"
    /\ compare_response.status_code = 404
    /\ fallback_response.status_code = 500
    /\ Len(ui) = 3

\* C7: a range produced by the fallback listing is handed on only with a warning
\* to the user that it is not the comparison's result.
C7_FallbackWarned ==
    (resolved_by = "fallback" /\ pc # "caller") =>
        \E k \in 1..Len(ui) : ui[k].kind = "warning"

\* C8: whichever detail fetches fail, the aggregation covers the whole range: a
\* failed commit contributes its known message and no labels, a fetched commit
\* its message and the label of each of its files.
C8_FailedFetchDegrades ==
    /\ \A i \in Failed :
        /\ futures[i].result.message = commits[i].message
        /\ futures[i].result.changed_files = <<>>
    /\ \A i \in Succeeded :
        /\ futures[i].result.message = commits[i].message
        /\ Len(futures[i].result.changed_files) = Len(responses[i].files)
        /\ \A k \in 1..Len(responses[i].files) :
            futures[i].result.changed_files[k]
                = responses[i].files[k].filename \o " (" \o responses[i].files[k].status \o ")"
    /\ change_summary.set =>
        /\ Failed \cup Succeeded = 1..Len(commits)
        /\ \A i \in 1..Len(commits) :
            Occurrences(change_summary.messages, commits[i].message)
                = Cardinality({j \in 1..Len(commits) : commits[j].message = commits[i].message})
        /\ Len(change_summary.messages) = Len(commits)
        /\ change_summary.files =
            UNION {Range(futures[i].result.changed_files) : i \in Succeeded}

C8_Witness ==
    /\ change_summary.set
    /\ Failed # {}
    /\ Succeeded # {}
    /\ 1 \in Failed

\* C9: the shared message list and file set change only in a step of the
\* submitting thread that takes one completed future's result, never in a
\* worker's step, and the final file set is the union of the per-commit label
\* lists whatever the completion order.
C9_SingleWriter ==
    /\ [](change_summary.set =>
            change_summary.files =
                UNION {Range(futures[i].result.changed_files) : i \in 1..Len(futures)})
    /\ [][(commit_messages' # commit_messages \/ files_changed' # files_changed) =>
            \E i \in 1..Len(futures) :
                /\ futures[i].state = "done"
                /\ futures' = [futures EXCEPT ![i].state = "yielded"]
                /\ commit_messages' = Append(commit_messages, futures[i].result.message)
                /\ files_changed' = files_changed \cup Range(futures[i].result.changed_files)
                /\ responses' = responses]_vars

C9_Witness ==
    /\ pc = "pool"
    /\ Len(commit_messages) = 1
    /\ files_changed # {}
    /\ Running # {}
    /\ futures[1].state = "running"

\* C10: one detail fetch is issued per commit, and the summary is formatted and
\* the completion called only after all of them finished, so the summary's
\* message count equals the reported commit count and the length of the range.
C10_OneFetchPerCommit ==
    /\ \A i \in 1..Len(futures) :
        Cardinality(DetailCalls(commits[i].sha)) = (IF futures[i].state = "pending" THEN 0 ELSE 1)
    /\ Cardinality(Issued("commit")) <= Len(commits)
    /\ (change_summary.set \/ Issued("chat.completions") # {}) =>
        /\ change_summary.set
        /\ Len(futures) = Len(commits)
        /\ Len(commits) > 0
        /\ \A i \in 1..Len(futures) : futures[i].state = "yielded"
        /\ Cardinality(Issued("commit")) = Len(commits)
        /\ Len(change_summary.messages) = change_summary.commit_count
        /\ change_summary.commit_count = Len(commits)

C10_Witness ==
    /\ Issued("chat.completions") # {}
    /\ Len(commits) = 3
    /\ Failed # {}
    /\ Succeeded # {}

=============================================================================
